---------------------------- MODULE Spec2Model ----------------------------
(***************************************************************************)
(* k-point grid sizing (src/kgrid.py, src/job_control.py) and the VASP job *)
(* maker (src/job_control.py).                                             *)
(*                                                                         *)
(* Numbers.  The solvers work in floating point.  The model keeps every    *)
(* quantity exact: cell lengths and the volume are integers, the target    *)
(* density is the rational kn/kd, and mult = (kpd/vol*a*b*c) ** (1/3) is   *)
(* the real cube root, never computed but compared with integers by        *)
(* cubing.  The one rounding that changes results on such inputs is the    *)
(* power itself (64 ** (1/3) is 3.9999999999999996): the computed mult is  *)
(* the real root moved by err times an infinitesimal, err in {-1, 0, 1}    *)
(* chosen per call.  Products of the integer grid with the volume are      *)
(* exact in floating point.                                                *)
(***************************************************************************)
EXTENDS Integers, Sequences, FiniteSets

VARIABLES
    lengths,    \* atoms.get_cell_lengths_and_angles()[0:3]
    vol,        \* atoms.get_volume()
    ret,        \* the last solver call: its arguments and what it returned
    prev,       \* the solver call before it
    poscar,     \* per structure directory: first_structure exists
    outcar,     \* per structure directory: OUTCAR exists
    traj,       \* per structure directory: images.traj exists
    written,    \* per structure directory: times the job script was written
    submitted,  \* per structure directory: times job_command was run
    cur,        \* structure directory the running invocation is at, 0 when idle
    submit,     \* the submit argument of the running invocation
    runs        \* invocations of vasp_job_maker started so far

cellVars == <<lengths, vol>>
callVars == <<ret, prev>>
jobVars  == <<poscar, outcar, traj, written, submitted, cur, submit, runs>>
vars     == <<lengths, vol, ret, prev,
              poscar, outcar, traj, written, submitted, cur, submit, runs>>

(***************************************************************************)
(* Bounds of the model.                                                    *)
(***************************************************************************)
MaxLen     == 3     \* cell lengths are 0..MaxLen (0: degenerate cell)
MaxVol     == 2     \* volumes are 0..MaxVol, never above a*b*c
MaxKpd     == 32    \* target densities of Spec are -1..MaxKpd
MonoMaxKpd == 5     \* target densities of SpecMono are 1..MonoMaxKpd
TieMaxLen  == 3     \* cell lengths of SpecTies
TieKpdDen  == 8     \* SpecTies draws the target density from k/TieKpdDen
TieMaxKpd  == 243   \* ... with k in 1..TieMaxKpd
NumDirs    == 2     \* structure directories the jobs argument names
MaxRuns    == 3     \* invocations of vasp_job_maker

Axes == 1..3

Cube(x) == x * x * x

Sign(x) == IF x > 0 THEN 1 ELSE IF x < 0 THEN -1 ELSE 0

Abs(x) == IF x < 0 THEN -x ELSE x

Prod(n) == n[1] * n[2] * n[3]

None == [fn |-> "none"]

(***************************************************************************)
(* A call context c: c.L lengths, c.V volume, c.kn/c.kd target density,    *)
(* c.err rounding direction of the cube root.                              *)
(***************************************************************************)
Ctx(L, V, kn, kd, err) == [L |-> L, V |-> V, kn |-> kn, kd |-> kd, err |-> err]

\* Sign of X - root*Y, where root is the real cube root of kpd/vol*a*b*c.
CmpRoot(c, X, Y) ==
    Sign(Cube(X) * c.V * c.kd - Cube(Y) * c.kn * Prod(c.L))

\* Sign of X - mult*Y, mult the computed cube root.
CmpMult(c, X, Y) ==
    LET s == CmpRoot(c, X, Y)
    IN  IF s # 0 THEN s ELSE Sign(-(c.err * Y))


(***************************************************************************)
(* get_kpts_from_kpd (src/kgrid.py).                                       *)
(*                                                                         *)
(* nkpt_frac[i] = max(mult / l, step) is a real number; the model holds    *)
(* it by its comparisons with the integers m >= step.                      *)
(***************************************************************************)
Step(only_even) == IF only_even THEN 2 ELSE 1

\* nkpt_frac[i] <= m, for an integer m >= st
FracLeq(c, st, i, m) == CmpMult(c, m * c.L[i], 1) >= 0

\* nkpt_frac[i] >= m
FracGeq(c, st, i, m) == m <= st \/ CmpMult(c, m * c.L[i], 1) <= 0

\* nkpt_frac[i] = st: the maximum took the step
Clamped(c, st, i) == FracLeq(c, st, i, st)

\* np.floor(nkpt_frac[i] / st), found upwards from k
RECURSIVE FloorFrom(_, _, _, _)
FloorFrom(c, st, i, k) ==
    IF FracGeq(c, st, i, (k + 1) * st) THEN FloorFrom(c, st, i, k + 1) ELSE k

\* nkpt = np.floor(nkpt_frac/step)*step
NkptFloor(c, st) == [i \in Axes |-> FloorFrom(c, st, i, 1) * st]

\* np.ceil(nkpt_frac/step)*step
NkptCeil(c, st) ==
    LET F == NkptFloor(c, st)
    IN  [i \in Axes |-> IF FracLeq(c, st, i, F[i]) THEN F[i] ELSE F[i] + st]

\* Sign of delta_ceil[i] - delta_ceil[j], delta_ceil = C - nkpt_frac, for the
\* ceilings C and floors F of the call.  A clamped axis has delta_ceil = 0;
\* for two unclamped axes the difference is
\* ((C[i]-C[j])*l_i*l_j - mult*(l_j-l_i)) / (l_i*l_j).
DeltaCmp(c, st, F, C, i, j) ==
    IF Clamped(c, st, i) /\ Clamped(c, st, j) THEN 0
    ELSE IF Clamped(c, st, i) THEN (IF C[j] = F[j] THEN 0 ELSE -1)
    ELSE IF Clamped(c, st, j) THEN (IF C[i] = F[i] THEN 0 ELSE 1)
    ELSE CmpMult(c, (C[i] - C[j]) * c.L[i] * c.L[j], c.L[j] - c.L[i])

Perms == {o \in [Axes -> Axes] : \A a \in Axes : \E k \in Axes : o[k] = a}

\* check_order = np.argsort(delta_ceil): the orders that sort delta_ceil
\* ascending.  The default sort kind promises no order among equal keys, so
\* every sorted order is a possible result.
ArgSorts(c, st, F, C) ==
    {o \in Perms : /\ DeltaCmp(c, st, F, C, o[1], o[2]) <= 0
                   /\ DeltaCmp(c, st, F, C, o[2], o[3]) <= 0}

CheckOrders(c, st) ==
    LET F == NkptFloor(c, st)
        C == NkptCeil(c, st)
    IN  ArgSorts(c, st, F, C)

\* np.isclose(nkpt_frac[i], nkpt_frac[j]): |x - y| <= 1e-8 + 1e-5*|y|.
\* Two values max(root/l, st) over integer lengths are equal as reals or
\* differ by far more than the tolerance (by a factor l_j/l_i, or by a
\* cube that differs from st^3 by at least 1/(vol*kd*l^3)), and the rounding
\* of the root is far below the tolerance: closeness is equality of the real
\* values.
IsClose(c, st, i, j) ==
    IF CmpRoot(c, st * c.L[i], 1) >= 0 \/ CmpRoot(c, st * c.L[j], 1) >= 0
    THEN CmpRoot(c, st * c.L[i], 1) >= 0 /\ CmpRoot(c, st * c.L[j], 1) >= 0
    ELSE c.L[i] = c.L[j]

\* actual_kpd < kpd, actual_kpd = vol * nkpt[0]*nkpt[1]*nkpt[2]
Below(c, n) == c.V * Prod(n) * c.kd < c.kn

\* Bump with the increment 1 whatever the step (mutant)
BumpIgnoresStep(n, S, st) == [a \in Axes |-> IF a \in S THEN n[a] + 1 ELSE n[a]]

\* Bump with the increment applied twice (mutant)
BumpTwice(n, S, st) ==
    [a \in Axes |-> IF a \in S THEN n[a] + st + st ELSE n[a]]

\* nkpt[a] = nkpt[a] + step for the axes a of S
Bump(n, S, st) == [a \in Axes |-> IF a \in S THEN n[a] + st ELSE n[a]]

\* The while loop with the bound i<=1, never reaching the last axis (mutant)
RECURSIVE WhileStopsEarly(_, _, _, _, _)
WhileStopsEarly(c, st, o, n, i) ==
    IF Below(c, n) /\ i <= 1
    THEN WhileStopsEarly(c, st, o, Bump(n, {o[i + 1]}, st), i + 1)
    ELSE [n |-> n, i |-> i]

\* while actual_kpd < kpd and i<=2: bump check_order[i]; i+=1
RECURSIVE While(_, _, _, _, _)
While(c, st, o, n, i) ==
    IF Below(c, n) /\ i <= 2
    THEN While(c, st, o, Bump(n, {o[i + 1]}, st), i + 1)
    ELSE [n |-> n, i |-> i]

\* The chain with the three-way branch missing its third increment (mutant)
BatchThreeBumpsTwo(c, st, o, F) ==
    IF ~Below(c, F)
    THEN [n |-> F, i |-> 0, branch |-> "none", batch |-> 0]
    ELSE IF IsClose(c, st, o[1], o[2]) /\ IsClose(c, st, o[2], o[3])
    THEN [n |-> Bump(F, {o[1], o[2]}, st), i |-> 3,
          branch |-> "three", batch |-> 3]
    ELSE IF IsClose(c, st, o[1], o[2])
    THEN [n |-> Bump(F, {o[1], o[2]}, st), i |-> 2,
          branch |-> "nearest", batch |-> 2]
    ELSE IF IsClose(c, st, o[2], o[3])
    THEN IF Below(c, Bump(F, {o[1]}, st))
         THEN [n |-> Bump(F, {o[1], o[2], o[3]}, st), i |-> 3,
               branch |-> "farthest", batch |-> 3]
         ELSE [n |-> Bump(F, {o[1]}, st), i |-> 3,
               branch |-> "farthest", batch |-> 1]
    ELSE [n |-> F, i |-> 0, branch |-> "notie", batch |-> 0]

\* The chain with the two-nearest branch missing "i = 2" (mutant)
BatchNearestKeepsIndex(c, st, o, F) ==
    IF ~Below(c, F)
    THEN [n |-> F, i |-> 0, branch |-> "none", batch |-> 0]
    ELSE IF IsClose(c, st, o[1], o[2]) /\ IsClose(c, st, o[2], o[3])
    THEN [n |-> Bump(F, {o[1], o[2], o[3]}, st), i |-> 3,
          branch |-> "three", batch |-> 3]
    ELSE IF IsClose(c, st, o[1], o[2])
    THEN [n |-> Bump(F, {o[1], o[2]}, st), i |-> 0,
          branch |-> "nearest", batch |-> 2]
    ELSE IF IsClose(c, st, o[2], o[3])
    THEN IF Below(c, Bump(F, {o[1]}, st))
         THEN [n |-> Bump(F, {o[1], o[2], o[3]}, st), i |-> 3,
               branch |-> "farthest", batch |-> 3]
         ELSE [n |-> Bump(F, {o[1]}, st), i |-> 3,
               branch |-> "farthest", batch |-> 1]
    ELSE [n |-> F, i |-> 0, branch |-> "notie", batch |-> 0]

\* The if/elif chain under "if actual_kpd < kpd": the grid and the index i
\* it leaves, with the branch taken and the number of axes it incremented.
Batch(c, st, o, F) ==
    IF ~Below(c, F)
    THEN [n |-> F, i |-> 0, branch |-> "none", batch |-> 0]
    ELSE IF IsClose(c, st, o[1], o[2]) /\ IsClose(c, st, o[2], o[3])
    THEN [n |-> Bump(F, {o[1], o[2], o[3]}, st), i |-> 3,
          branch |-> "three", batch |-> 3]
    ELSE IF IsClose(c, st, o[1], o[2])
    THEN [n |-> Bump(F, {o[1], o[2]}, st), i |-> 2,
          branch |-> "nearest", batch |-> 2]
    ELSE IF IsClose(c, st, o[2], o[3])
    THEN IF Below(c, Bump(F, {o[1]}, st))
         THEN [n |-> Bump(F, {o[1], o[2], o[3]}, st), i |-> 3,
               branch |-> "farthest", batch |-> 3]
         ELSE [n |-> Bump(F, {o[1]}, st), i |-> 3,
               branch |-> "farthest", batch |-> 1]
    ELSE [n |-> F, i |-> 0, branch |-> "notie", batch |-> 0]

\* The call ends in an exception and returns nothing.  The code tests no
\* argument: a zero volume makes kpd/vol infinite or NaN, a zero length makes
\* mult/l NaN, a negative kpd/vol*a*b*c has no real power 1/3 (NaN), and
\* int() of a NaN or infinite count raises.
Raises(c) ==
    \/ c.V = 0
    \/ \E i \in Axes : c.L[i] = 0
    \/ c.kn * c.V * Prod(c.L) < 0

Error == [kind |-> "error", n |-> <<0, 0, 0>>, F |-> <<0, 0, 0>>,
          branch |-> "none", batch |-> 0, batchn |-> <<0, 0, 0>>,
          start |-> 0, iters |-> 0]

\* What a solver returns (n), with the trace of its repair pass: the floored
\* grid F, the batch branch, the grid batchn and index start the while loop
\* began with, and its number of iterations.
Outcome(F, b, w) ==
    [kind |-> "grid", n |-> w.n, F |-> F, branch |-> b.branch,
     batch |-> b.batch, batchn |-> b.n, start |-> b.i, iters |-> w.i - b.i]

get_kpts_from_kpd(c, only_even, o) ==
    IF Raises(c) THEN Error
    ELSE LET st == Step(only_even)
             F  == NkptFloor(c, st)
             b  == Batch(c, st, o, F)
         IN  Outcome(F, b, While(c, st, o, b.n, b.i))


(***************************************************************************)
(* safe_kgrid_from_cell_volume (src/kgrid.py): the same pass written with  *)
(* the literal 1 where get_kpts_from_kpd has step.                         *)
(***************************************************************************)
\* nkpt = np.floor(nkpt_frac), nkpt_frac[i] = max(mult / l, 1)
SafeFloor(c) == [i \in Axes |-> FloorFrom(c, 1, i, 1)]

\* np.ceil(nkpt_frac)
SafeCeil(c) ==
    LET F == SafeFloor(c)
    IN  [i \in Axes |-> IF CmpMult(c, F[i] * c.L[i], 1) >= 0
                        THEN F[i] ELSE F[i] + 1]

SafeCheckOrders(c) ==
    LET F == SafeFloor(c)
        C == SafeCeil(c)
    IN  ArgSorts(c, 1, F, C)

SafeBatch(c, o, F) ==
    IF ~Below(c, F)
    THEN [n |-> F, i |-> 0, branch |-> "none", batch |-> 0]
    ELSE IF IsClose(c, 1, o[1], o[2]) /\ IsClose(c, 1, o[2], o[3])
    THEN [n |-> [a \in Axes |-> F[a] + 1], i |-> 3,
          branch |-> "three", batch |-> 3]
    ELSE IF IsClose(c, 1, o[1], o[2])
    THEN [n |-> [a \in Axes |-> IF a = o[3] THEN F[a] ELSE F[a] + 1],
          i |-> 2, branch |-> "nearest", batch |-> 2]
    ELSE IF IsClose(c, 1, o[2], o[3])
    THEN IF Below(c, [a \in Axes |-> IF a = o[1] THEN F[a] + 1 ELSE F[a]])
         THEN [n |-> [a \in Axes |-> F[a] + 1], i |-> 3,
               branch |-> "farthest", batch |-> 3]
         ELSE [n |-> [a \in Axes |-> IF a = o[1] THEN F[a] + 1 ELSE F[a]],
               i |-> 3, branch |-> "farthest", batch |-> 1]
    ELSE [n |-> F, i |-> 0, branch |-> "notie", batch |-> 0]

\* The while loop of the copy with the bound i<=1 (mutant)
RECURSIVE SafeWhileStopsEarly(_, _, _, _)
SafeWhileStopsEarly(c, o, n, i) ==
    IF Below(c, n) /\ i <= 1
    THEN SafeWhileStopsEarly(c, o,
                   [a \in Axes |-> IF a = o[i + 1] THEN n[a] + 1 ELSE n[a]],
                   i + 1)
    ELSE [n |-> n, i |-> i]

\* while actual_kpd < kpd and i<=2: nkpt[check_order[i]] += 1; i+=1
RECURSIVE SafeWhile(_, _, _, _)
SafeWhile(c, o, n, i) ==
    IF Below(c, n) /\ i <= 2
    THEN SafeWhile(c, o,
                   [a \in Axes |-> IF a = o[i + 1] THEN n[a] + 1 ELSE n[a]],
                   i + 1)
    ELSE [n |-> n, i |-> i]

safe_kgrid_from_cell_volume(c, o) ==
    IF Raises(c) THEN Error
    ELSE LET F == SafeFloor(c)
             b == SafeBatch(c, o, F)
         IN  Outcome(F, b, SafeWhile(c, o, b.n, b.i))

(***************************************************************************)
(* safe_kgrid_from_cell_volume (src/job_control.py): the copy.             *)
(***************************************************************************)
JobControlBatch(c, o, F) ==
    IF ~Below(c, F)
    THEN [n |-> F, i |-> 0, branch |-> "none", batch |-> 0]
    ELSE IF IsClose(c, 1, o[1], o[2]) /\ IsClose(c, 1, o[2], o[3])
    THEN [n |-> Bump(F, {o[1], o[2], o[3]}, 1), i |-> 3,
          branch |-> "three", batch |-> 3]
    ELSE IF IsClose(c, 1, o[1], o[2])
    THEN [n |-> Bump(F, {o[1], o[2]}, 1), i |-> 2,
          branch |-> "nearest", batch |-> 2]
    ELSE IF IsClose(c, 1, o[2], o[3])
    THEN IF Below(c, Bump(F, {o[1]}, 1))
         THEN [n |-> Bump(F, {o[1], o[2], o[3]}, 1), i |-> 3,
               branch |-> "farthest", batch |-> 3]
         ELSE [n |-> Bump(F, {o[1]}, 1), i |-> 3,
               branch |-> "farthest", batch |-> 1]
    ELSE [n |-> F, i |-> 0, branch |-> "notie", batch |-> 0]

RECURSIVE JobControlWhile(_, _, _, _)
JobControlWhile(c, o, n, i) ==
    IF Below(c, n) /\ i <= 2
    THEN JobControlWhile(c, o, Bump(n, {o[i + 1]}, 1), i + 1)
    ELSE [n |-> n, i |-> i]

job_control_safe_kgrid(c, o) ==
    IF Raises(c) THEN Error
    ELSE LET F == [i \in Axes |-> FloorFrom(c, 1, i, 1)]
             b == JobControlBatch(c, o, F)
         IN  Outcome(F, b, JobControlWhile(c, o, b.n, b.i))

(***************************************************************************)
(* kgrid_from_cell_volume (src/kgrid.py, and its copy in                   *)
(* src/job_control.py): the all-floor or the all-ceil grid.                *)
(***************************************************************************)
\* num_divf = [int(math.floor(max(mult / l, 1))) for l in lengths]
NumDivF(c) == [i \in Axes |-> FloorFrom(c, 1, i, 1)]

\* math.ceil(mult / l), found upwards from k: the least k with mult/l <= k
RECURSIVE CeilFrom(_, _, _)
CeilFrom(c, i, k) ==
    IF CmpMult(c, k * c.L[i], 1) >= 0 THEN k ELSE CeilFrom(c, i, k + 1)

\* num_divc = [int(math.ceil(mult / l)) for l in lengths]
NumDivC(c) == [i \in Axes |-> CeilFrom(c, i, 0)]

\* errorc < errorf with both errors taken relative to the target kpd (mutant)
ErrorCLessVsTarget(c, f, g) ==
    Abs(c.kn - c.kd * c.V * Prod(g)) < Abs(c.kn - c.kd * c.V * Prod(f))

\* errorc < errorf, error = abs(kpd - kpdx)/kpdx and kpdx = vol*prod(num_divx),
\* both sides multiplied by kd*kpdc*kpdf > 0
ErrorCLess(c, f, g) ==
    Abs(c.kn - c.kd * c.V * Prod(g)) * (c.V * Prod(f))
        < Abs(c.kn - c.kd * c.V * Prod(f)) * (c.V * Prod(g))

LegacyError == [kind |-> "error", n |-> <<0, 0, 0>>,
                num_divf |-> <<0, 0, 0>>, num_divc |-> <<0, 0, 0>>]

kgrid_from_cell_volume(c) ==
    IF Raises(c) THEN LegacyError
    ELSE LET num_divf == NumDivF(c)
             num_divc == NumDivC(c)
         IN  [kind |-> "grid",
              n |-> IF ErrorCLess(c, num_divf, num_divc)
                    THEN num_divc ELSE num_divf,
              num_divf |-> num_divf, num_divc |-> num_divc]


\* kgrid_from_cell_volume of job_control.py: the copy
job_control_kgrid(c) ==
    IF Raises(c) THEN LegacyError
    ELSE LET num_divf == [i \in Axes |-> FloorFrom(c, 1, i, 1)]
             num_divc == [i \in Axes |-> CeilFrom(c, i, 0)]
             kpdf == c.V * Prod(num_divf)
             kpdc == c.V * Prod(num_divc)
         IN  [kind |-> "grid",
              n |-> IF Abs(c.kn - c.kd * kpdc) * kpdf
                        < Abs(c.kn - c.kd * kpdf) * kpdc
                    THEN num_divc ELSE num_divf,
              num_divf |-> num_divf, num_divc |-> num_divc]

(***************************************************************************)
(* The solvers as operations on a cell.  A behaviour fixes the cell (the   *)
(* atoms object) and calls a solver on it.                                 *)
(***************************************************************************)
\* Rounding directions of the power ** (1/3) in a call with density kn/kd:
\* 0 ** (1/3) is exactly 0, and an infinite or NaN radicand is not rounded.
Errs(kn) == IF vol = 0 \/ kn <= 0 THEN {0} ELSE {-1, 0, 1}

Identity == [a \in Axes |-> a]

Min(a, b) == IF a < b THEN a ELSE b

\* Cells an atoms object can hold: the volume |det(cell)| is at most a*b*c,
\* and a cell with a zero-length vector has volume 0.
Cells(maxLen, minVol) ==
    {g \in [L : [Axes -> 0..maxLen], V : 0..MaxVol] :
        /\ g.V >= minVol
        /\ g.V <= Prod(g.L)}

Call(fn, c, only_even, o, out) ==
    [fn |-> fn, kn |-> c.kn, kd |-> c.kd, only_even |-> only_even,
     err |-> c.err, order |-> o, out |-> out]

JobsIdle ==
    /\ poscar = [d \in 1..NumDirs |-> FALSE]
    /\ outcar = [d \in 1..NumDirs |-> FALSE]
    /\ traj = [d \in 1..NumDirs |-> FALSE]
    /\ written = [d \in 1..NumDirs |-> 0]
    /\ submitted = [d \in 1..NumDirs |-> 0]
    /\ cur = 0
    /\ submit = FALSE
    /\ runs = 0

Init ==
    /\ \E g \in Cells(MaxLen, 0) : lengths = g.L /\ vol = g.V
    /\ ret = None
    /\ prev = None
    /\ JobsIdle

\* get_kpts_from_kpd(atoms, kn/kd, only_even)
GetKptsCall(K, kd) ==
    /\ ret = None
    /\ \E kn \in K, only_even \in BOOLEAN : \E err \in Errs(kn) :
         LET c == Ctx(lengths, vol, kn, kd, err) IN
         \E o \in IF Raises(c) THEN {Identity}
                  ELSE CheckOrders(c, Step(only_even)) :
            ret' = Call("get_kpts_from_kpd", c, only_even, o,
                        get_kpts_from_kpd(c, only_even, o))
    /\ UNCHANGED <<cellVars, prev, jobVars>>

\* safe_kgrid_from_cell_volume(atoms, kn/kd) of kgrid.py
SafeKgridCall(K, kd) ==
    /\ ret = None
    /\ \E kn \in K : \E err \in Errs(kn) :
         LET c == Ctx(lengths, vol, kn, kd, err) IN
         \E o \in IF Raises(c) THEN {Identity} ELSE SafeCheckOrders(c) :
            ret' = Call("safe_kgrid_from_cell_volume", c, FALSE, o,
                        safe_kgrid_from_cell_volume(c, o))
    /\ UNCHANGED <<cellVars, prev, jobVars>>

\* safe_kgrid_from_cell_volume(atoms, kn/kd) of job_control.py
JobControlSafeKgridCall(K, kd) ==
    /\ ret = None
    /\ \E kn \in K : \E err \in Errs(kn) :
         LET c == Ctx(lengths, vol, kn, kd, err) IN
         \E o \in IF Raises(c) THEN {Identity} ELSE SafeCheckOrders(c) :
            ret' = Call("job_control_safe_kgrid", c, FALSE, o,
                        job_control_safe_kgrid(c, o))
    /\ UNCHANGED <<cellVars, prev, jobVars>>

\* kgrid_from_cell_volume(atoms, kn/kd).  With kpd = 0 the all-ceil grid is
\* (0,0,0) and errorc divides by its zero density; what that yields depends
\* on the number type of atoms.get_volume(), and the call is left out.
KgridCall(K, kd) ==
    /\ ret = None
    /\ \E kn \in K \ {0} : \E err \in Errs(kn) :
         LET c == Ctx(lengths, vol, kn, kd, err) IN
            ret' = Call("kgrid_from_cell_volume", c, FALSE, Identity,
                        kgrid_from_cell_volume(c))
    /\ UNCHANGED <<cellVars, prev, jobVars>>

\* kgrid_from_cell_volume(atoms, kn/kd) of job_control.py, kpd = 0 left out
\* as above
JobControlKgridCall(K, kd) ==
    /\ ret = None
    /\ \E kn \in K \ {0} : \E err \in Errs(kn) :
         LET c == Ctx(lengths, vol, kn, kd, err) IN
            ret' = Call("job_control_kgrid", c, FALSE, Identity,
                        job_control_kgrid(c))
    /\ UNCHANGED <<cellVars, prev, jobVars>>

Kpds == -1..MaxKpd

GetKpts == GetKptsCall(Kpds, 1)

SafeKgrid == SafeKgridCall(Kpds, 1)

JobControlSafeKgrid == JobControlSafeKgridCall(Kpds, 1)

Kgrid == KgridCall(Kpds, 1)

JobControlKgrid == JobControlKgridCall(Kpds, 1)

Next ==
    \/ GetKpts
    \/ SafeKgrid
    \/ JobControlSafeKgrid
    \/ Kgrid
    \/ JobControlKgrid

Spec == Init /\ [][Next]_vars


(***************************************************************************)
(* Properties of the solvers.                                              *)
(***************************************************************************)
Solvers == {"get_kpts_from_kpd", "safe_kgrid_from_cell_volume",
            "job_control_safe_kgrid"}

ValidCell == vol > 0 /\ \A a \in Axes : lengths[a] > 0

\* A balancing solver has returned from a call on valid arguments.
SolvedValid == ret.fn \in Solvers /\ ValidCell /\ ret.kn > 0

RetCtx == Ctx(lengths, vol, ret.kn, ret.kd, ret.err)

RetStep == IF ret.fn = "get_kpts_from_kpd" /\ ret.only_even THEN 2 ELSE 1

\* C1: on valid arguments a balancing solver returns a grid whose density
\* vol*nx*ny*nz is at least the target kpd, whatever repair branch ran.
C1_MeetsTarget ==
    SolvedValid =>
        /\ ret.out.kind = "grid"
        /\ vol * Prod(ret.out.n) * ret.kd >= ret.kn

\* A call that needed the whole repair pass: the two farthest-ranked axes
\* tie, and bumping the nearest one alone was not enough.
C1_Witness ==
    /\ SolvedValid
    /\ ret.out.branch = "farthest"
    /\ ret.out.batch = 3

\* C2: on valid arguments every count get_kpts_from_kpd returns is a
\* positive multiple of step (2 with only_even, else 1).
C2_MultipleOfStep ==
    (SolvedValid /\ ret.fn = "get_kpts_from_kpd") =>
        \A a \in Axes :
            /\ ret.out.n[a] >= RetStep
            /\ ret.out.n[a] % RetStep = 0

\* An even-only call whose while loop incremented a single axis.
C2_Witness ==
    /\ SolvedValid
    /\ ret.fn = "get_kpts_from_kpd"
    /\ ret.only_even
    /\ ret.out.branch = "notie"
    /\ ret.out.iters = 1

\* C4 as claimed: a non-positive target density, volume or length ends the
\* call in an error and no grid is returned.
C4_InvalidRejected ==
    (/\ ret.fn \in Solvers
     /\ (ret.kn <= 0 \/ vol <= 0 \/ \E a \in Axes : lengths[a] <= 0))
        => ret.out.kind = "error"

\* mult/a = m for the m >= 1 with m^3 = kpd/vol, in a cubic cell
CubicRoots ==
    {m \in 1..MaxKpd + 1 : Cube(m) * vol * ret.kd = ret.kn}

CubicIntegerCall ==
    /\ SolvedValid
    /\ RetStep = 1
    /\ lengths[1] = lengths[2] /\ lengths[2] = lengths[3]
    /\ CubicRoots # {}

\* C5 as claimed: a cubic cell with step 1 and mult/a an integer m gets
\* (m,m,m) from the floored grid, no axis being bumped.
C5_CubicNoBump ==
    CubicIntegerCall =>
        /\ \A a \in Axes : ret.out.n[a] \in CubicRoots
        /\ ret.out.branch = "none"
        /\ ret.out.n = ret.out.F

\* C5 amended: such a call returns (m,m,m); the floored grid is (m,m,m) and
\* nothing is bumped unless the computed cube root falls below m, and then
\* the floored grid is (m-1,m-1,m-1) and the three-way bump restores m.
C5_CubicReturnsM ==
    CubicIntegerCall =>
        /\ \A a \in Axes : ret.out.n[a] \in CubicRoots
        /\ \/ ret.out.branch = "none" /\ ret.out.n = ret.out.F
           \/ /\ ret.err = -1
              /\ ret.out.branch = "three"
              /\ \A a \in Axes : ret.out.F[a] + 1 = ret.out.n[a]

\* A cubic call with m >= 2 answered by the floored grid.
C5_Witness ==
    /\ CubicIntegerCall
    /\ ret.out.branch = "none"
    /\ ret.out.n[1] >= 2

LegacyValid ==
    /\ ret.fn \in {"kgrid_from_cell_volume", "job_control_kgrid"}
    /\ ValidCell
    /\ ret.kn > 0

\* kd times the distance of the grid g's density from the target
TargetGap(g) == Abs(vol * Prod(g) * ret.kd - ret.kn)

\* C6 as claimed: kgrid_from_cell_volume returns the all-floor or the
\* all-ceil grid, the one with the lower |V*prod(n) - kpd| / kpd, all-floor
\* on a tie.
C6_LowerErrorVsTarget ==
    LegacyValid =>
        ret.out.n = IF TargetGap(ret.out.num_divc) < TargetGap(ret.out.num_divf)
                    THEN ret.out.num_divc ELSE ret.out.num_divf

\* C6 amended: it returns the all-floor or the all-ceil grid, the one with
\* the lower error relative to the grid's own density,
\* |kpd - V*prod(n)| / (V*prod(n)), all-floor on a tie.
C6_LowerErrorVsOwnDensity ==
    LegacyValid =>
        /\ \A a \in Axes :
              /\ ret.out.num_divf[a] >= 1
              /\ ret.out.num_divc[a] - ret.out.num_divf[a] \in {0, 1}
        /\ ret.out.n =
              IF TargetGap(ret.out.num_divc) * Prod(ret.out.num_divf)
                    < TargetGap(ret.out.num_divf) * Prod(ret.out.num_divc)
              THEN ret.out.num_divc ELSE ret.out.num_divf

\* The all-ceil grid is returned although the all-floor grid is strictly
\* nearer to the target.
C6_Witness ==
    /\ LegacyValid
    /\ ret.out.n = ret.out.num_divc
    /\ TargetGap(ret.out.num_divf) < TargetGap(ret.out.num_divc)

\* The axes the while loop incremented: check_order[start..start+iters-1]
LoopAxes == {ret.order[k] : k \in ret.out.start + 1..ret.out.start + ret.out.iters}

\* The grid before the last iteration of the while loop
BeforeLast ==
    [a \in Axes |->
        IF a = ret.order[ret.out.start + ret.out.iters]
        THEN ret.out.n[a] - RetStep ELSE ret.out.n[a]]

\* C8: no axis is incremented twice: every returned count is F_i or
\* F_i + step; the while loop runs at most 3 minus the batch-bumped axes
\* times, over the next axes of check_order, each once, and stops as soon
\* as the target is met.
C8_BumpedAtMostOnce ==
    SolvedValid =>
        /\ \A a \in Axes : ret.out.n[a] \in {ret.out.F[a], ret.out.F[a] + RetStep}
        /\ ret.out.iters <= 3 - ret.out.batch
        /\ ret.out.start + ret.out.iters <= 3
        /\ Cardinality(LoopAxes) = ret.out.iters
        /\ ret.out.n = [a \in Axes |-> IF a \in LoopAxes
                                       THEN ret.out.batchn[a] + RetStep
                                       ELSE ret.out.batchn[a]]
        /\ ret.out.iters > 0 =>
              vol * Prod(BeforeLast) * ret.kd < ret.kn
        /\ \/ vol * Prod(ret.out.n) * ret.kd >= ret.kn
           \/ ret.out.start + ret.out.iters = 3

\* Two axes were bumped together and the while loop then bumped the third.
C8_Witness ==
    /\ SolvedValid
    /\ ret.out.branch = "nearest"
    /\ ret.out.iters = 1

\* C10: on valid arguments the three solvers agree: a grid returned by
\* either copy of safe_kgrid_from_cell_volume is the grid of
\* get_kpts_from_kpd with only_even = False on the same check_order, and
\* the reverse; the copies agree with each other.
C10_SolversAgree ==
    (SolvedValid /\ RetStep = 1) =>
        /\ ret.order \in CheckOrders(RetCtx, Step(FALSE))
        /\ ret.order \in SafeCheckOrders(RetCtx)
        /\ ret.out.n = get_kpts_from_kpd(RetCtx, FALSE, ret.order).n
        /\ ret.out.n = safe_kgrid_from_cell_volume(RetCtx, ret.order).n
        /\ ret.out.n = job_control_safe_kgrid(RetCtx, ret.order).n

\* The job_control.py copy returned a grid its repair pass had to build.
C10_Witness ==
    /\ SolvedValid
    /\ ret.fn = "job_control_safe_kgrid"
    /\ ret.out.branch = "notie"
    /\ ret.out.iters = 2


(***************************************************************************)
(* Two calls of get_kpts_from_kpd on one cell, the second with a target    *)
(* density at least the first's.                                           *)
(***************************************************************************)
InitMono ==
    /\ \E g \in Cells(MaxLen, 1) : lengths = g.L /\ vol = g.V
    /\ ret = None
    /\ prev = None
    /\ JobsIdle

GetKptsFirst == GetKptsCall(1..MonoMaxKpd, 1)

\* The same arguments give the same result: a repeated density repeats the
\* rounding and the check_order of the first call.
GetKptsAgain ==
    /\ ret.fn = "get_kpts_from_kpd"
    /\ prev = None
    /\ \E kn \in ret.kn..MonoMaxKpd : \E err \in Errs(kn) :
         LET c == Ctx(lengths, vol, kn, 1, err) IN
         \E o \in CheckOrders(c, Step(ret.only_even)) :
            /\ kn = ret.kn => (err = ret.err /\ o = ret.order)
            /\ ret' = Call("get_kpts_from_kpd", c, ret.only_even, o,
                           get_kpts_from_kpd(c, ret.only_even, o))
    /\ prev' = ret
    /\ UNCHANGED <<cellVars, jobVars>>

NextMono == GetKptsFirst \/ GetKptsAgain

SpecMono == InitMono /\ [][NextMono]_vars

\* C3 as claimed: with the cell and step fixed and kpd1 <= kpd2, no axis
\* count returned for kpd2 is below the count returned for kpd1.
C3_Monotone ==
    prev # None => \A a \in Axes : ret.out.n[a] >= prev.out.n[a]

\* C3 amended: the floored counts never decrease, so no axis count
\* returned for kpd2 is more than one step below the count returned for
\* kpd1 (an axis bumped for kpd1 may stay unbumped for kpd2).
C3_MonotoneUpToStep ==
    prev # None =>
        \A a \in Axes :
            /\ ret.out.F[a] >= prev.out.F[a]
            /\ ret.out.n[a] >= prev.out.n[a] - Step(ret.only_even)

\* The ranking of the axes changed between the calls and an axis lost a
\* step.
C3_Witness ==
    /\ prev # None
    /\ ret.kn > prev.kn
    /\ ret.order # prev.order
    /\ \E a \in Axes : ret.out.n[a] = prev.out.n[a] - Step(ret.only_even)

(***************************************************************************)
(* Cells with two axes of the same length, the target density on the grid  *)
(* of 1/TieKpdDen.                                                         *)
(***************************************************************************)
InitTies ==
    /\ \E g \in Cells(TieMaxLen, 1) :
          /\ \E i, j \in Axes : i # j /\ g.L[i] = g.L[j]
          /\ lengths = g.L /\ vol = g.V
    /\ ret = None
    /\ prev = None
    /\ JobsIdle

TieKpds == 1..TieMaxKpd

GetKptsTies == GetKptsCall(TieKpds, TieKpdDen)

SafeKgridTies == SafeKgridCall(TieKpds, TieKpdDen)

NextTies == GetKptsTies \/ SafeKgridTies

SpecTies == InitTies /\ [][NextTies]_vars

\* C9 as claimed: two axes of the same length get the same count, wherever
\* the third axis falls in the ranking.
C9_EqualAxesEqualCounts ==
    SolvedValid =>
        \A i, j \in Axes :
            lengths[i] = lengths[j] => ret.out.n[i] = ret.out.n[j]


(***************************************************************************)
(* vasp_job_maker (src/job_control.py).  The jobs argument names NumDirs   *)
(* structure directories; an invocation visits them in order.  Between     *)
(* two visits VASP may run in a directory that holds a job script and      *)
(* write its OUTCAR.                                                       *)
(***************************************************************************)
Dirs == 1..NumDirs

InitJobs ==
    /\ lengths = <<1, 1, 1>>
    /\ vol = 1
    /\ ret = None
    /\ prev = None
    /\ JobsIdle

\* vasp_job_maker(..., submit = sub) is called
VaspJobMaker(sub) ==
    /\ cur = 0
    /\ runs < MaxRuns
    /\ cur' = 1
    /\ submit' = sub
    /\ runs' = runs + 1
    /\ UNCHANGED <<cellVars, callVars, poscar, outcar, traj, written, submitted>>

\* The OUTCAR test always passing (mutant)
NoOutcarUntested(d) == TRUE

\* not isfile(struct_dir+'OUTCAR')
NoOutcar(d) == ~outcar[d]

\* One pass of the loop body over struct_dir = cur: the structure files are
\* written if missing; without an OUTCAR the job script is written and, if
\* submit, job_command is run; with an OUTCAR the images are read and
\* images.traj is written if missing.
StructureDir ==
    /\ cur \in Dirs
    /\ poscar' = [poscar EXCEPT ![cur] = TRUE]
    /\ IF NoOutcar(cur)
       THEN /\ written' = [written EXCEPT ![cur] = @ + 1]
            /\ submitted' = IF submit
                            THEN [submitted EXCEPT ![cur] = @ + 1]
                            ELSE submitted
            /\ traj' = traj
       ELSE /\ traj' = [traj EXCEPT ![cur] = TRUE]
            /\ UNCHANGED <<written, submitted>>
    /\ cur' = IF cur = NumDirs THEN 0 ELSE cur + 1
    /\ UNCHANGED <<cellVars, callVars, outcar, submit, runs>>

\* VASP runs in directory d, from the scheduler or by hand, and writes OUTCAR
VaspRuns(d) ==
    /\ written[d] > 0
    /\ ~outcar[d]
    /\ outcar' = [outcar EXCEPT ![d] = TRUE]
    /\ UNCHANGED <<cellVars, callVars, poscar, traj, written, submitted,
                   cur, submit, runs>>

NextJobs ==
    \/ \E sub \in BOOLEAN : VaspJobMaker(sub)
    \/ StructureDir
    \/ \E d \in Dirs : VaspRuns(d)

SpecJobs == InitJobs /\ [][NextJobs]_vars

\* C7: job_command is run for a directory only by an invocation with
\* submit = True visiting it while it has no OUTCAR; and once a directory
\* has an OUTCAR its job script is not rewritten and it is not resubmitted.
C7_SubmitOnlyWithoutOutcar ==
    [][\A d \in Dirs :
          /\ submitted'[d] # submitted[d] =>
                (submit /\ cur = d /\ ~outcar[d]
                    /\ submitted'[d] = submitted[d] + 1)
          /\ outcar[d] =>
                (written'[d] = written[d] /\ submitted'[d] = submitted[d])]_vars

\* A directory submitted once got its OUTCAR and was visited again by a
\* later invocation with submit = True, which only read the images.
C7_Witness ==
    \E d \in Dirs :
        /\ outcar[d]
        /\ traj[d]
        /\ submitted[d] = 1
        /\ written[d] = 1
        /\ submit
        /\ runs >= 2
        /\ cur # d

=============================================================================
